---- MODULE Spec2Model ----
(***************************************************************************)
(* Model of pymanoid's Stance (src/pymanoid/stance.py): the four optional  *)
(* contact slots and the COM target, JSON persistence (save / load /       *)
(* from_json), the cached static-equilibrium polygon (sep_hrep, sep_norm,  *)
(* sep_vertices) with its signed-distance query, and the pendular COM      *)
(* acceleration cone.                                                      *)
(*                                                                         *)
(* Numbers are integers: lengths, frictions and accelerations are scaled   *)
(* so that every value the model uses is integral (gravity is 981 cm/s^2). *)
(* A quotient is kept as a fraction [num, den] with den > 0.               *)
(***************************************************************************)
EXTENDS Integers, Sequences, FiniteSets, TLC

VARIABLES com, left_foot, right_foot, left_hand, right_hand,
          sep_hrep, sep_norm, sep_vertices, file, ret

vars == <<com, left_foot, right_foot, left_hand, right_hand,
          sep_hrep, sep_norm, sep_vertices, file, ret>>

contactVars == <<left_foot, right_foot, left_hand, right_hand>>
cacheVars == <<sep_hrep, sep_norm, sep_vertices>>

(***************************************************************************)
(* Bounds of the model.                                                    *)
(***************************************************************************)
\* dist_to_sep_edge is queried at the points (x, y, z), x, y in 0..MaxQ
MaxQ == 4
\* ... and z = 0 or z = MaxZ
MaxZ == 1
\* com_vertices holds at most MaxSamples sample points
MaxSamples == 2
\* the vertices of a reduced hull have coordinates in -HullMax..HullMax
HullMax == 3

(***************************************************************************)
(* Values.                                                                 *)
(***************************************************************************)
\* Python's None
None == [isNone |-> TRUE]
\* an attribute that __init__ does not create (sep_norm, sep_vertices), and
\* one that holds value v
Unset == [unset |-> TRUE]
Attr(v) == [val |-> v]
\* an optional argument that is given
Some(v) == [some |-> v]

\* Contact(shape, pos, rpy, friction): the persisted attributes of a contact
Contact(shape, friction, pos, rpy) ==
    [shape |-> shape, friction |-> friction, p |-> pos, rpy |-> rpy]

\* Contact.dict_repr
dict_repr(c) ==
    [friction |-> c.friction, pos |-> c.p, rpy |-> c.rpy, shape |-> c.shape]

\* PointMass(pos=...): the COM target, identified by its position
PointMass(pos) == [p |-> pos]

ContactA == Contact(<<2, 1>>, 5, <<0, 0, 0>>, <<0, 0, 0>>)
ContactB == Contact(<<1, 1>>, 7, <<3, 0, 1>>, <<0, 0, 1>>)
ContactValues == {ContactA, ContactB}
Slot == ContactValues \cup {None}

ComP0 == <<0, 0, 1>>
ComP1 == <<0, 1, 1>>
ComTargets == {PointMass(ComP0), PointMass(ComP1)}

\* the order in which load assigns the four slots
LoadOrder == <<"left_foot", "right_foot", "left_hand", "right_hand">>

\* the stance as a record, for the operators below
Stance(c, lf, rf, lh, rh, hrep, nrm, vs) ==
    [com |-> c, left_foot |-> lf, right_foot |-> rf, left_hand |-> lh,
     right_hand |-> rh, sep_hrep |-> hrep, sep_norm |-> nrm,
     sep_vertices |-> vs]

self == Stance(com, left_foot, right_foot, left_hand, right_hand,
               sep_hrep, sep_norm, sep_vertices)

\* Stance.__init__(com, left_foot, right_foot, left_hand, right_hand)
StanceInit(c, lf, rf, lh, rh) == Stance(c, lf, rf, lh, rh, None, Unset, Unset)

\* Stance.contacts: filter(None, [left_foot, left_hand, right_foot, right_hand])
contacts(s) ==
    SelectSeq(<<s.left_foot, s.left_hand, s.right_foot, s.right_hand>>,
              LAMBDA c : c # None)

\* Stance.nb_contacts
nb_contacts(s) ==
    (IF s.left_foot # None THEN 1 ELSE 0)
    + (IF s.left_hand # None THEN 1 ELSE 0)
    + (IF s.right_foot # None THEN 1 ELSE 0)
    + (IF s.right_hand # None THEN 1 ELSE 0)

\* outcomes of a call: the operation, its arguments, the exception raised or
\* the value returned; arguments and value are filed under the operation
Return(op, args, val) ==
    [op |-> op, args |-> [o \in {op} |-> args], exc |-> "none",
     val |-> [o \in {op} |-> val]]
Raise(op, args, exc) == [op |-> op, args |-> [o \in {op} |-> args], exc |-> exc]
Args(r) == r.args[r.op]
Val(r) == r.val[r.op]

(***************************************************************************)
(* JSON text: an object is written as the sequence of its (key, value)     *)
(* pairs in sorted key order (sort_keys=True), and read back as a mapping. *)
(***************************************************************************)
TopKeys == <<"com", "left_foot", "left_hand", "right_foot", "right_hand">>
InnerKeys == <<"friction", "pos", "rotation", "rpy", "shape">>

\* the keys of d, in the order they are written
Present(d, order) == SelectSeq(order, LAMBDA k : k \in DOMAIN d)

\* a contact or com dictionary as text
DumpInner(d) ==
    LET ks == Present(d, InnerKeys)
    IN  [i \in 1..Len(ks) |-> <<ks[i], d[ks[i]]>>]

\* simplejson.dump(d, fp, indent=4, sort_keys=True)
JsonDump(d) ==
    LET ks == Present(d, TopKeys)
    IN  [i \in 1..Len(ks) |-> <<ks[i], DumpInner(d[ks[i]])>>]

Keys(text) == {text[i][1] : i \in 1..Len(text)}
Lookup(text, k) == text[CHOOSE i \in 1..Len(text) : text[i][1] = k][2]

LoadInner(text) == [k \in Keys(text) |-> Lookup(text, k)]

\* simplejson.load(fp)
JsonLoad(text) == [k \in Keys(text) |-> LoadInner(Lookup(text, k))]

NoFile == [exists |-> FALSE]
FileOf(text) == [exists |-> TRUE, text |-> text]

(***************************************************************************)
(* Persistence: save, load, from_json.                                     *)
(***************************************************************************)
\* save with the right_hand entry forgotten
SaveDictNoRightHand(s) ==
    [k \in (IF s.com # None THEN {"com"} ELSE {})
           \cup {LoadOrder[i] : i \in {j \in 1..3 : s[LoadOrder[j]] # None}} |->
        IF k = "com" THEN [pos |-> s.com.p] ELSE dict_repr(s[k])]

\* the dictionary save builds before dumping it
SaveDict(s) ==
    [k \in (IF s.com # None THEN {"com"} ELSE {})
           \cup {LoadOrder[i] : i \in {j \in 1..4 : s[LoadOrder[j]] # None}} |->
        IF k = "com" THEN [pos |-> s.com.p] ELSE dict_repr(s[k])]

\* cfd(contact_dict) raises KeyError when one of its four keys is missing
CfdKeys == {"shape", "friction", "pos", "rpy"}
CfdRaises(contact_dict) == ~(CfdKeys \subseteq DOMAIN contact_dict)
cfd(contact_dict) ==
    Contact(contact_dict.shape, contact_dict.friction,
            contact_dict.pos, contact_dict.rpy)

\* load that keeps a slot whose field the record lacks, instead of clearing it
LoadDictMerging(s, d) ==
    LET bad(i) == LoadOrder[i] \in DOMAIN d /\ CfdRaises(d[LoadOrder[i]])
        failAt == IF \E i \in 1..4 : bad(i)
                  THEN CHOOSE i \in 1..4 : bad(i) /\ \A j \in 1..(i - 1) : ~bad(j)
                  ELSE 5
        slot(i) == IF i >= failAt THEN s[LoadOrder[i]]
                   ELSE IF LoadOrder[i] \in DOMAIN d THEN cfd(d[LoadOrder[i]])
                   ELSE s[LoadOrder[i]]
    IN  [stance |-> [s EXCEPT !.com = IF "com" \in DOMAIN d
                                        THEN PointMass(d["com"].pos) ELSE @,
                              !.left_foot = slot(1),
                              !.right_foot = slot(2),
                              !.left_hand = slot(3),
                              !.right_hand = slot(4)],
         exc |-> IF failAt <= 4 THEN "KeyError" ELSE "none"]

\* the body of load once the file is parsed into d: the stance it leaves
\* behind and the exception it raises, if any.  The slots are assigned in
\* LoadOrder; an exception leaves the later slots as they were.
LoadDict(s, d) ==
    LET bad(i) == LoadOrder[i] \in DOMAIN d /\ CfdRaises(d[LoadOrder[i]])
        failAt == IF \E i \in 1..4 : bad(i)
                  THEN CHOOSE i \in 1..4 : bad(i) /\ \A j \in 1..(i - 1) : ~bad(j)
                  ELSE 5
        slot(i) == IF i >= failAt THEN s[LoadOrder[i]]
                   ELSE IF LoadOrder[i] \in DOMAIN d THEN cfd(d[LoadOrder[i]])
                   ELSE None
    IN  [stance |-> [s EXCEPT !.com = IF "com" \in DOMAIN d
                                        THEN PointMass(d["com"].pos) ELSE @,
                              !.left_foot = slot(1),
                              !.right_foot = slot(2),
                              !.left_hand = slot(3),
                              !.right_hand = slot(4)],
         exc |-> IF failAt <= 4 THEN "KeyError" ELSE "none"]

\* load that drops the cached polygon of the stance it changes
loadInvalidating(s, f) ==
    IF ~f.exists THEN [stance |-> s, exc |-> "IOError"]
    ELSE LET r == LoadDict(s, JsonLoad(f.text))
         IN  [r EXCEPT !.stance.sep_hrep = None]

\* Stance.load(path), path naming file f
load(s, f) ==
    IF ~f.exists THEN [stance |-> s, exc |-> "IOError"]
    ELSE LoadDict(s, JsonLoad(f.text))

\* Stance.from_json(path): a new stance, or the exception load raised
from_json(f) ==
    LET r == load(StanceInit(PointMass(<<0, 0, 0>>), None, None, None, None), f)
    IN  IF r.exc = "none" THEN Return("from_json", <<>>, r.stance)
        ELSE Raise("from_json", <<>>, r.exc)

\* files found on disk that save did not write
RecordEmpty == << >>
RecordHand == [right_hand |-> dict_repr(ContactB)]
RecordRotation ==
    [com |-> [pos |-> ComP1],
     left_foot |-> dict_repr(ContactA),
     right_foot |-> [friction |-> 7, pos |-> <<3, 0, 1>>,
                     rotation |-> <<0, 0, 1>>, shape |-> <<1, 1>>]]
InitialFiles ==
    {NoFile, FileOf(JsonDump(RecordEmpty)), FileOf(JsonDump(RecordHand)),
     FileOf(JsonDump(RecordRotation))}

(***************************************************************************)
(* Static-equilibrium polygon and its half-space form.                     *)
(***************************************************************************)
Methods == {"hull", "bretl", "cdd"}

\* polygons the projection returns, counter-clockwise
Rect == <<<<0, 0>>, <<2, 0>>, <<2, 2>>, <<0, 2>>>>
Tri == <<<<0, 0>>, <<4, 0>>, <<0, 3>>>>
Polygons == {Rect, Tri}

dot2(a, p) == a[1] * p[1] + a[2] * p[2]

\* ContactSet.compute_static_equilibrium_polygon(method): its outcomes
SuperComputeOutcomes(s, method) ==
    IF nb_contacts(s) = 0 THEN {[exc |-> "InsufficientContacts"]}
    ELSE {[exc |-> "none", val |-> P] : P \in Polygons}
         \cup {[exc |-> "ProjectionFailed"]}

\* compute_polytope_halfspaces(vertices): one row per edge of the polygon
Halfspaces(V) ==
    LET n == Len(V)
        nxt(i) == V[(i % n) + 1]
        row(i) == <<nxt(i)[2] - V[i][2], V[i][1] - nxt(i)[1]>>
    IN  [A |-> [i \in 1..n |-> row(i)],
         b |-> [i \in 1..n |-> dot2(row(i), V[i])]]

HalfspacesOutcomes(V) ==
    {[exc |-> "none", val |-> Halfspaces(V)], [exc |-> "ProjectionFailed"]}

\* misc.norm on the rows the model uses, whose squared norm is a square
norm(a) ==
    LET n2 == dot2(a, a)
    IN  CHOOSE r \in 0..n2 : r * r <= n2 /\ (r + 1) * (r + 1) > n2

\* the three assignments of compute_static_equilibrium_polygon
StoreSEP(s, hrep, vertices) ==
    [s EXCEPT !.sep_hrep = hrep,
              !.sep_norm = Attr([i \in 1..Len(hrep.A) |-> norm(hrep.A[i])]),
              !.sep_vertices = Attr(vertices)]

\* compute that turns a failure of the projection into an empty polygon
computeSwallowing(s, method, sup, hs) ==
    IF sup.exc # "none"
    THEN [stance |-> [s EXCEPT !.sep_vertices = Attr(<< >>)],
          ret |-> Return("compute_sep", method, << >>)]
    ELSE IF hs.exc # "none"
    THEN [stance |-> s, ret |-> Raise("compute_sep", method, hs.exc)]
    ELSE [stance |-> StoreSEP(s, hs.val, sup.val),
          ret |-> Return("compute_sep", method, sup.val)]

\* compute that stores the vertices before it converts them
computeStoringEarly(s, method, sup, hs) ==
    IF sup.exc # "none"
    THEN [stance |-> s, ret |-> Raise("compute_sep", method, sup.exc)]
    ELSE IF hs.exc # "none"
    THEN [stance |-> [s EXCEPT !.sep_vertices = Attr(sup.val)],
          ret |-> Raise("compute_sep", method, hs.exc)]
    ELSE [stance |-> StoreSEP(s, hs.val, sup.val),
          ret |-> Return("compute_sep", method, sup.val)]

\* Stance.compute_static_equilibrium_polygon, given the outcome of the
\* parent's projection and of the half-space conversion
compute_static_equilibrium_polygon(s, method, sup, hs) ==
    IF sup.exc # "none"
    THEN [stance |-> s, ret |-> Raise("compute_sep", method, sup.exc)]
    ELSE IF hs.exc # "none"
    THEN [stance |-> s, ret |-> Raise("compute_sep", method, hs.exc)]
    ELSE [stance |-> StoreSEP(s, hs.val, sup.val),
          ret |-> Return("compute_sep", method, sup.val)]

FracLeq(x, y) == x.num * y.den <= y.num * x.den

\* min() of a non-empty sequence of fractions: its first least element
MinFrac(ds) ==
    ds[CHOOSE i \in 1..Len(ds) :
          /\ \A j \in 1..Len(ds) : FracLeq(ds[i], ds[j])
          /\ \A j \in 1..(i - 1) : ~FracLeq(ds[j], ds[i])]

\* dist_to_sep_edge that answers 0 while nothing is cached
distUnguarded(s, q) ==
    IF s.sep_hrep = None
    THEN Return("dist_to_sep_edge", q, [num |-> 0, den |-> 1])
    ELSE Return("dist_to_sep_edge", q,
                MinFrac([i \in 1..Len(s.sep_hrep.A) |->
                            [num |-> s.sep_hrep.b[i] - dot2(s.sep_hrep.A[i], q),
                             den |-> s.sep_norm.val[i]]]))

\* dist_to_sep_edge that does not divide by the row norms
distUnnormalised(s, q) ==
    IF s.sep_hrep = None THEN Raise("dist_to_sep_edge", q, "TypeError")
    ELSE Return("dist_to_sep_edge", q,
                MinFrac([i \in 1..Len(s.sep_hrep.A) |->
                            [num |-> s.sep_hrep.b[i] - dot2(s.sep_hrep.A[i], q),
                             den |-> 1]]))

\* Stance.dist_to_sep_edge(com): unpacking None raises TypeError, and arrays
\* of different lengths do not divide (ValueError)
dist_to_sep_edge(s, q) ==
    IF s.sep_hrep = None THEN Raise("dist_to_sep_edge", q, "TypeError")
    ELSE LET A == s.sep_hrep.A
             b == s.sep_hrep.b
         IN  IF Len(s.sep_norm.val) # Len(A)
             THEN Raise("dist_to_sep_edge", q, "ValueError")
             ELSE Return("dist_to_sep_edge", q,
                         MinFrac([i \in 1..Len(A) |->
                                     [num |-> b[i] - dot2(A[i], q),
                                      den |-> s.sep_norm.val[i]]]))

QueryPoints == {<<x, y, z>> : x \in 0..MaxQ, y \in 0..MaxQ, z \in {0, MaxZ}}

(***************************************************************************)
(* Pendular COM acceleration cone.                                         *)
(***************************************************************************)
\* sim.gravity, in cm/s^2
gravity == <<0, 0, -981>>

dot3(a, b) == a[1] * b[1] + a[2] * b[2] + a[3] * b[3]
cross(a, b) ==
    <<a[2] * b[3] - a[3] * b[2], a[3] * b[1] - a[1] * b[3],
      a[1] * b[2] - a[2] * b[1]>>

RECURSIVE Concat(_)
\* vstack / hstack of a list of blocks
Concat(blocks) ==
    IF Len(blocks) = 0 THEN << >> ELSE Head(blocks) \o Concat(Tail(blocks))

\* the rows (force part, moment part) one contact adds to the wrench cone
\* at the origin: ContactA is a surface contact, ContactB a line contact
\* that constrains one horizontal direction only
WrenchRows(c) ==
    IF c = ContactA
    THEN << <<0, 0, -2, 0, 1, 0>>, <<0, 0, -2, 0, -1, 0>>,
            <<0, 0, -2, -1, 0, 0>>, <<0, 0, -2, 1, 0, 0>>,
            <<0, 0, -3, -1, 1, 0>> >>
    ELSE << <<0, 0, -1, 0, 1, 0>>, <<0, 0, -1, 0, -1, 0>> >>

\* ContactSet.compute_wrench_inequalities([0, 0, 0])
compute_wrench_inequalities(s) ==
    IF nb_contacts(s) = 0 THEN [exc |-> "InsufficientContacts"]
    ELSE [exc |-> "none"]

\* B = CWC_O[:, :3] + cross(CWC_O[:, 3:], v)
PointB(CWC_O, v) ==
    [i \in 1..Len(CWC_O) |->
        LET f == SubSeq(CWC_O[i], 1, 3)
            m == cross(SubSeq(CWC_O[i], 4, 6), v)
        IN  <<f[1] + m[1], f[2] + m[2], f[3] + m[3]>>]

\* c = dot(B, gravity)
PointC(B) == [i \in 1..Len(B) |-> dot3(B[i], gravity)]

\* the loop keeping the system of the last sample point only
StackSystemsLast(CWC_O, com_vertices) ==
    LET B == PointB(CWC_O, com_vertices[Len(com_vertices)])
    IN  [B |-> B, c |-> PointC(B)]

\* the loop over com_vertices, then B = vstack(B_list), c = hstack(c_list)
StackSystems(CWC_O, com_vertices) ==
    LET B_list == [t \in 1..Len(com_vertices) |-> PointB(CWC_O, com_vertices[t])]
        c_list == [t \in 1..Len(com_vertices) |-> PointC(B_list[t])]
    IN  [B |-> Concat(B_list), c |-> Concat(c_list)]

det2(u, w) == u[1] * w[2] - u[2] * w[1]

RECURSIVE SumPoints(_)
SumPoints(S) ==
    IF S = {} THEN <<0, 0>>
    ELSE LET p == CHOOSE q \in S : TRUE
             r == SumPoints(S \ {p})
         IN  <<p[1] + r[1], p[2] + r[2]>>

\* the points of S in counter-clockwise order around their centroid
CounterClockwise(S) ==
    LET n == Cardinality(S)
        sum == SumPoints(S)
        rel(p) == <<n * p[1] - sum[1], n * p[2] - sum[2]>>
        upper(u) == u[2] > 0 \/ (u[2] = 0 /\ u[1] > 0)
        before(p, q) == IF upper(rel(p)) # upper(rel(q)) THEN upper(rel(p))
                        ELSE det2(rel(p), rel(q)) > 0
        rank(p) == Cardinality({q \in S : before(q, p)})
    IN  [i \in 1..n |-> CHOOSE p \in S : rank(p) = i - 1]

\* compute_polygon_hull(B, c): the vertices of {x : B x <= c}, through the
\* hull of the dual points B[i] / c[i]; QhullError when they are collinear
compute_polygon_hull(B, c) ==
    LET rows == {<<B[i], c[i]>> : i \in 1..Len(B)}
        \* the dual points relative to the first one, up to a positive factor
        duals == {<<r[1][1] * c[1] - B[1][1] * r[2],
                    r[1][2] * c[1] - B[1][2] * r[2]>> : r \in rows}
        collinear == \A u, w \in duals : det2(u, w) = 0
        grid == {<<a, b>> : a \in (0 - HullMax)..HullMax,
                            b \in (0 - HullMax)..HullMax}
        tight(p) == {r \in rows : dot2(r[1], p) = r[2]}
        vertex(p) == /\ \A r \in rows : dot2(r[1], p) <= r[2]
                     /\ \E r, t \in tight(p) : det2(r[1], t[1]) # 0
    IN  IF collinear THEN [exc |-> "QhullError"]
        ELSE [exc |-> "none", val |-> CounterClockwise({p \in grid : vertex(p)})]

\* the expansion with "zdd_max or g": a zdd_max of 0 taken for None
expandZeroAsNone(reduced_hull, zdd_max) ==
    LET g == 0 - gravity[3]
        zdd == IF zdd_max = None \/ zdd_max = Some(0) THEN g ELSE zdd_max.some
    IN  <<gravity>> \o
        [i \in 1..Len(reduced_hull) |->
            <<reduced_hull[i][1] * (g + zdd), reduced_hull[i][2] * (g + zdd), zdd>>]

\* expand_reduced_pendular_cone(reduced_hull, zdd_max)
expand_reduced_pendular_cone(reduced_hull, zdd_max) ==
    LET g == 0 - gravity[3]
        zdd == IF zdd_max = None THEN g ELSE zdd_max.some
    IN  <<gravity>> \o
        [i \in 1..Len(reduced_hull) |->
            <<reduced_hull[i][1] * (g + zdd), reduced_hull[i][2] * (g + zdd), zdd>>]

\* the try block of compute_pendular_accel_cone up to the call of
\* compute_polygon_hull, and the outcome of that call
HullOfStack(CWC_O, com_vertices) ==
    LET sys == StackSystems(CWC_O, com_vertices)
        g == 0 - gravity[3]
        B_2d == [i \in 1..Len(sys.B) |-> <<sys.B[i][1], sys.B[i][2]>>]
        sigma == [i \in 1..Len(sys.c) |-> sys.c[i] \div g]
    IN  compute_polygon_hull(B_2d, sigma)

SamplePoints == {<<0, 1, 1>>, <<0, -1, 1>>}
SampleLists ==
    UNION {[1..n -> SamplePoints] : n \in 0..MaxSamples}

\* HullOfStack, tabulated once over the contact lists and sample lists of
\* the model (@@ makes the table explicit)
HullTable ==
    [k \in (UNION {[1..n -> ContactValues] : n \in 1..4})
           \X ((SampleLists \cup {<<c.p>> : c \in ComTargets}) \ {<< >>}) |->
        HullOfStack(Concat([i \in 1..Len(k[1]) |-> WrenchRows(k[1][i])]), k[2])]
    @@ << >>

\* compute_pendular_accel_cone up to the call of compute_polygon_hull: the
\* outcome of that call, or the exception raised before it
ReducedHull(s, com_vertices_arg) ==
    LET com_vertices == IF com_vertices_arg = None THEN <<s.com.p>>
                        ELSE com_vertices_arg.some
        CWC_O == compute_wrench_inequalities(s)
    IN  IF CWC_O.exc # "none" THEN CWC_O
        ELSE IF Len(com_vertices) = 0 THEN [exc |-> "ValueError"]
        ELSE HullTable[<<contacts(s), com_vertices>>]

\* a QhullError answered with the apex alone
PendularResultApexOnly(hull, args) ==
    IF hull.exc = "QhullError" THEN Return("pendular", args, <<gravity>>)
    ELSE IF hull.exc # "none" THEN Raise("pendular", args, hull.exc)
    ELSE IF args.reduced THEN Return("pendular", args, hull.val)
    ELSE Return("pendular", args,
                expand_reduced_pendular_cone(hull.val, args.zdd_max))

\* the rest of compute_pendular_accel_cone: what the caller gets
PendularResult(hull, args) ==
    IF hull.exc = "QhullError" THEN Raise("pendular", args, "Exception")
    ELSE IF hull.exc # "none" THEN Raise("pendular", args, hull.exc)
    ELSE IF args.reduced THEN Return("pendular", args, hull.val)
    ELSE Return("pendular", args,
                expand_reduced_pendular_cone(hull.val, args.zdd_max))

\* Stance.compute_pendular_accel_cone(com_vertices, zdd_max, reduced)
compute_pendular_accel_cone(s, args) ==
    PendularResult(ReducedHull(s, args.com_vertices), args)

ComVerticesArgs == {None} \cup {Some(l) : l \in SampleLists}
ZddMaxArgs == {None, Some(0), Some(200)}
ConeArgs ==
    [com_vertices : ComVerticesArgs, zdd_max : ZddMaxArgs, reduced : BOOLEAN]

(***************************************************************************)
(* The state machine.                                                      *)
(***************************************************************************)
\* a stance as its constructor leaves it, its slots drawn from S, and the
\* file on disk drawn from F
Constructed(S, F) ==
    /\ com \in ComTargets
    /\ left_foot \in S /\ right_foot \in S
    /\ left_hand \in S /\ right_hand \in S
    /\ sep_hrep = None /\ sep_norm = Unset /\ sep_vertices = Unset
    /\ file \in F
    /\ ret = Return("init", << >>, None)

\* Spec draws the slots from None and ContactA; load brings ContactB in
Init ==
    Constructed({None, ContactA},
                {FileOf(JsonDump(RecordEmpty)), FileOf(JsonDump(RecordRotation))})

\* the stance variables take the values of record s
Becomes(s) ==
    /\ com' = s.com
    /\ left_foot' = s.left_foot /\ right_foot' = s.right_foot
    /\ left_hand' = s.left_hand /\ right_hand' = s.right_hand
    /\ sep_hrep' = s.sep_hrep /\ sep_norm' = s.sep_norm
    /\ sep_vertices' = s.sep_vertices

\* stance.<role> = c
SetRoleIn(S) ==
    \E i \in 1..4, c \in S :
        /\ Becomes([self EXCEPT ![LoadOrder[i]] = c])
        /\ ret' = Return("assign", LoadOrder[i], None)
        /\ UNCHANGED file

SetRole == SetRoleIn({None, ContactA})
SetAnyRole == SetRoleIn(Slot)

\* stance.com = c
SetCom ==
    \E c \in ComTargets :
        /\ Becomes([self EXCEPT !.com = c])
        /\ ret' = Return("assign", "com", None)
        /\ UNCHANGED file

Save ==
    /\ file' = FileOf(JsonDump(SaveDict(self)))
    /\ ret' = Return("save", <<>>, None)
    /\ UNCHANGED <<com, contactVars, cacheVars>>

Load ==
    LET r == load(self, file)
    IN  /\ Becomes(r.stance)
        /\ ret' = IF r.exc = "none" THEN Return("load", <<>>, None)
                  ELSE Raise("load", <<>>, r.exc)
        /\ UNCHANGED file

FromJson ==
    /\ ret' = from_json(file)
    /\ UNCHANGED <<com, contactVars, cacheVars, file>>

ComputeSEP ==
    \E method \in Methods :
    \E sup \in SuperComputeOutcomes(self, method) :
    \E hs \in (IF sup.exc = "none" THEN HalfspacesOutcomes(sup.val)
               ELSE {[exc |-> "none"]}) :
        LET r == compute_static_equilibrium_polygon(self, method, sup, hs)
        IN  /\ Becomes(r.stance)
            /\ ret' = r.ret
            /\ UNCHANGED file

DistToSepEdge ==
    \E q \in QueryPoints :
        /\ ret' = dist_to_sep_edge(self, q)
        /\ UNCHANGED <<com, contactVars, cacheVars, file>>

Next == SetRole \/ SetCom \/ Load \/ FromJson \/ ComputeSEP \/ DistToSepEdge

Spec == Init /\ [][Next]_vars

ComputePendularAccelCone ==
    \E com_vertices \in ComVerticesArgs :
        LET hull == ReducedHull(self, com_vertices)
        IN  \E zdd_max \in ZddMaxArgs, reduced \in BOOLEAN :
                /\ ret' = PendularResult(hull, [com_vertices |-> com_vertices,
                                                zdd_max |-> zdd_max,
                                                reduced |-> reduced])
                /\ UNCHANGED <<com, contactVars, cacheVars, file>>

\* the line contact is tried at the left foot and the right hand
InitCone ==
    /\ Constructed(Slot, {NoFile})
    /\ right_foot # ContactB /\ left_hand # ContactB /\ right_hand # ContactA

NextCone == ComputeSEP \/ ComputePendularAccelCone

SpecCone == InitCone /\ [][NextCone]_vars

InitPersist == Constructed(Slot, InitialFiles)

NextPersist == SetAnyRole \/ SetCom \/ Save \/ Load \/ FromJson

SpecPersist == InitPersist /\ [][NextPersist]_vars

(***************************************************************************)
(* Properties.                                                             *)
(***************************************************************************)
FracEq(x, y) == x.num * y.den = y.num * x.den
Roles == {LoadOrder[i] : i \in 1..4}

\* C1: dist_to_sep_edge on a stance whose sep_hrep is still None (no compute
\* has succeeded; also a stance fresh from from_json) fails -- the TypeError
\* of unpacking None is how the code realises the StaleState condition -- and
\* returns no distance, whatever the query point.
C1_StaleQueryFails ==
    /\ (ret.op = "dist_to_sep_edge" /\ sep_hrep = None)
          => (ret.exc = "TypeError" /\ "val" \notin DOMAIN ret)
    /\ sep_hrep = None
          => \A q \in QueryPoints : dist_to_sep_edge(self, q).exc = "TypeError"
    /\ (ret.op = "from_json" /\ ret.exc = "none")
          => /\ Val(ret).sep_hrep = None
             /\ \A q \in QueryPoints :
                    dist_to_sep_edge(Val(ret), q).exc = "TypeError"

C1_Witness ==
    /\ ret.op = "dist_to_sep_edge" /\ ret.exc = "TypeError"
    /\ sep_hrep = None /\ nb_contacts(self) > 0

\* C2: compute_static_equilibrium_polygon on a stance with no engaged role
\* fails with InsufficientContacts for every method, returns no vertex list
\* and leaves sep_hrep, sep_norm and sep_vertices as they were.
C2_EmptyStanceComputeFails ==
    [][(ret'.op = "compute_sep" /\ nb_contacts(self) = 0)
          => /\ Args(ret') \in Methods
             /\ ret'.exc = "InsufficientContacts"
             /\ "val" \notin DOMAIN ret'
             /\ UNCHANGED cacheVars]_vars

C2_Witness ==
    /\ ret.op = "compute_sep" /\ ret.exc = "InsufficientContacts"
    /\ nb_contacts(self) = 0 /\ sep_hrep # None

C4_NoAutoInvalidation ==
    [][/\ ret'.op \in {"assign", "load", "from_json", "dist_to_sep_edge"}
            => UNCHANGED cacheVars
       /\ (ret'.op = "dist_to_sep_edge" /\ sep_hrep # None)
            => (ret'.exc = "none" /\ ret' = dist_to_sep_edge(self', Args(ret')))
       /\ (cacheVars' # cacheVars)
            => /\ ret'.op = "compute_sep" /\ ret'.exc = "none"
               /\ sep_vertices' = Attr(Val(ret'))
               /\ sep_hrep' = Halfspaces(Val(ret'))
               /\ sep_norm' = Attr([i \in 1..Len(sep_hrep'.A) |->
                                        norm(sep_hrep'.A[i])])]_vars

C4_Witness ==
    /\ ret.op = "load" /\ ret.exc = "none"
    /\ nb_contacts(self) = 0
    /\ sep_vertices = Attr(Tri) /\ sep_hrep = Halfspaces(Tri)

\* C5: a distance returned by dist_to_sep_edge(com) is the least of
\* (b[i] - A[i].com[:2]) / norm(A[i]) over the cached rows, whatever com[2];
\* it is positive exactly when every row has A[i].p < b[i], zero exactly when
\* no row is violated and one is tight (so at every vertex), and negative
\* exactly when a row is violated.
C5_SignedDistance ==
    (ret.op = "dist_to_sep_edge" /\ ret.exc = "none") =>
        LET A == sep_hrep.A
            b == sep_hrep.b
            p == <<Args(ret)[1], Args(ret)[2]>>
            rows == 1..Len(A)
            slack(i) == b[i] - (A[i][1] * p[1] + A[i][2] * p[2])
            n2(i) == A[i][1] * A[i][1] + A[i][2] * A[i][2]
            d(i) == [num |-> slack(i),
                     den |-> CHOOSE r \in 1..n2(i) : r * r = n2(i)]
        IN  /\ Val(ret).den > 0
            /\ \E i \in rows : FracEq(Val(ret), d(i))
            /\ \A i \in rows : FracLeq(Val(ret), d(i))
            /\ Val(ret).num > 0 <=> \A i \in rows : slack(i) > 0
            /\ Val(ret).num = 0 <=> /\ \A i \in rows : slack(i) >= 0
                                   /\ \E i \in rows : slack(i) = 0
            /\ Val(ret).num < 0 <=> \E i \in rows : slack(i) < 0
            /\ (\E i \in 1..Len(sep_vertices.val) : sep_vertices.val[i] = p)
                  => Val(ret).num = 0
            /\ \A z \in {0, MaxZ} :
                  Val(dist_to_sep_edge(self, <<p[1], p[2], z>>)) = Val(ret)

C5_Witness ==
    /\ ret.op = "dist_to_sep_edge" /\ ret.exc = "none"
    /\ sep_vertices = Attr(Tri) /\ Args(ret) = <<2, 1, 1>>
    /\ Val(ret) = [num |-> 2, den |-> 5]

\* C6: with several sample points the system handed to the hull is the
\* per-point systems B_v = CWC_O[:, :3] + cross(CWC_O[:, 3:], v),
\* c_v = B_v.gravity stacked in input order, and every vertex of the reduced
\* hull then lies in the hull computed from each sample point alone.
C6_Conservative ==
    (/\ ret.op = "pendular" /\ nb_contacts(self) > 0
     /\ Args(ret).com_vertices # None
     /\ Args(ret).com_vertices # Some(<< >>)) =>
        LET vs == Args(ret).com_vertices.some
            cts == contacts(self)
            CWC_O == Concat([i \in 1..Len(cts) |-> WrenchRows(cts[i])])
            k == Len(CWC_O)
            sys == StackSystems(CWC_O, vs)
            Bv(i, v) ==
                <<CWC_O[i][1] + (CWC_O[i][5] * v[3] - CWC_O[i][6] * v[2]),
                  CWC_O[i][2] + (CWC_O[i][6] * v[1] - CWC_O[i][4] * v[3]),
                  CWC_O[i][3] + (CWC_O[i][4] * v[2] - CWC_O[i][5] * v[1])>>
            alone(t) == ReducedHull(self, Some(<<vs[t]>>))
            inside(p, poly) ==
                \A e \in 1..Len(poly) :
                    LET u == poly[e]
                        w == poly[(e % Len(poly)) + 1]
                    IN  (w[1] - u[1]) * (p[2] - u[2])
                        - (w[2] - u[2]) * (p[1] - u[1]) >= 0
        IN  /\ Len(sys.B) = k * Len(vs) /\ Len(sys.c) = k * Len(vs)
            /\ \A t \in 1..Len(vs), i \in 1..k :
                  /\ sys.B[(t - 1) * k + i] = Bv(i, vs[t])
                  /\ sys.c[(t - 1) * k + i] = (0 - 981) * Bv(i, vs[t])[3]
            /\ (ret.exc = "none" /\ Args(ret).reduced) =>
                  \A t \in 1..Len(vs) :
                      /\ alone(t).exc = "none"
                      /\ \A j \in 1..Len(Val(ret)) :
                            inside(Val(ret)[j], alone(t).val)

C6_Witness ==
    /\ ret.op = "pendular" /\ ret.exc = "none" /\ Args(ret).reduced
    /\ Args(ret).com_vertices = Some(<<<<0, 1, 1>>, <<0, -1, 1>>>>)
    /\ left_foot = ContactA /\ nb_contacts(self) = 1
    /\ Val(ret) # ReducedHull(self, Some(<<<<0, 1, 1>>>>)).val
    /\ Val(ret) # ReducedHull(self, Some(<<<<0, -1, 1>>>>)).val

\* C7: with reduced=True compute_pendular_accel_cone returns the reduced
\* hull itself; otherwise the gravity vector followed by one vertex
\* (a (g + zdd), b (g + zdd), zdd) per hull vertex (a, b), in hull order,
\* zdd being zdd_max when given (0 included) and g when it is None; and
\* com_vertices=None stands for the single point self.com.p.
C7_OutputModes ==
    (ret.op = "pendular" /\ ret.exc = "none") =>
        LET hull == ReducedHull(self, Args(ret).com_vertices).val
            g == 981
            zdd == IF Args(ret).zdd_max = None THEN g ELSE Args(ret).zdd_max.some
        IN  /\ Args(ret).reduced => Val(ret) = hull
            /\ ~Args(ret).reduced =>
                  /\ Len(Val(ret)) = Len(hull) + 1
                  /\ Val(ret)[1] = <<0, 0, 0 - g>>
                  /\ \A i \in 1..Len(hull) :
                        Val(ret)[i + 1] = <<hull[i][1] * (g + zdd),
                                           hull[i][2] * (g + zdd), zdd>>
            /\ Args(ret).com_vertices = None =>
                  Val(ret) = Val(compute_pendular_accel_cone(
                                self, [Args(ret) EXCEPT
                                          !.com_vertices = Some(<<com.p>>)]))

C7_Witness ==
    /\ ret.op = "pendular" /\ ret.exc = "none"
    /\ ~Args(ret).reduced /\ Args(ret).zdd_max = Some(0)
    /\ Args(ret).com_vertices = None
    /\ Len(Val(ret)) = 6 /\ Val(ret)[2] = <<1962, 981, 0>>

\* C8: when compute_polygon_hull raises QhullError, the call of
\* compute_pendular_accel_cone raises -- the Exception the code raises is
\* its ProjectionFailed condition -- returning no vertex list, and the
\* contacts, the COM and the cached polygon are as before the call.
C8_HullFailure ==
    [][(/\ ret'.op = "pendular"
        /\ ReducedHull(self, Args(ret').com_vertices).exc = "QhullError")
          => /\ ret'.exc = "Exception"
             /\ "val" \notin DOMAIN ret'
             /\ UNCHANGED <<com, contactVars, cacheVars>>]_vars

C8_Witness ==
    /\ ret.op = "pendular" /\ ret.exc = "Exception"
    /\ ~Args(ret).reduced
    /\ left_foot = ContactB /\ nb_contacts(self) = 1
    /\ sep_vertices = Attr(Rect)

\* C9: with calls that do not interleave, whenever a polygon is cached the
\* three artifacts come from one compute: sep_hrep is the half-space form of
\* sep_vertices and sep_norm holds the norm of each row of A, one per row, so
\* dist_to_sep_edge never divides arrays of different lengths; a compute
\* that returns has cached the vertices it returns; and a compute that
\* raises leaves the three as they were.
C9_ComputeQueryConsistency ==
    /\ [](/\ sep_hrep # None =>
                /\ sep_vertices # Unset /\ sep_norm # Unset
                /\ sep_hrep = Halfspaces(sep_vertices.val)
                /\ Len(sep_norm.val) = Len(sep_hrep.A)
                /\ \A i \in 1..Len(sep_hrep.A) :
                      sep_norm.val[i] * sep_norm.val[i]
                         = sep_hrep.A[i][1] * sep_hrep.A[i][1]
                           + sep_hrep.A[i][2] * sep_hrep.A[i][2]
          /\ sep_hrep = None => (sep_vertices = Unset /\ sep_norm = Unset)
          /\ ret.op = "dist_to_sep_edge" => ret.exc \in {"none", "TypeError"}
          /\ (ret.op = "compute_sep" /\ ret.exc = "none")
                => sep_vertices = Attr(Val(ret)))
    /\ [][(ret'.op = "compute_sep" /\ ret'.exc # "none")
             => UNCHANGED cacheVars]_vars

C9_Witness ==
    /\ ret.op = "compute_sep" /\ ret.exc = "ProjectionFailed"
    /\ sep_vertices = Attr(Tri) /\ sep_norm = Attr(<<4, 5, 3>>)
    /\ nb_contacts(self) > 0

====
